---- MODULE Spec2Model ----
(***************************************************************************)
(* FlowControl (src/src/flow-control.js): a throttling queue.  call()      *)
(* wraps a callable and its arguments into a task, appends it to           *)
(* _taskQueue and schedules _executeTask with setTimeout(.., 0) when the   *)
(* queue was empty.  _executeTask asks _checkFlow whether the minimum      *)
(* interval since _lastExecuteTime has passed, shifts and invokes the head *)
(* task, and re-schedules itself while the queue is non-empty.  The task   *)
(* closure built by _createTask chains the callable's promise to the       *)
(* caller's resolve/reject and, in finally, updates the counters.          *)
(*                                                                         *)
(* JavaScript runs every handler to completion, so a step of the model is  *)
(* one macrotask (a call(), one timer callback) or the promise reactions   *)
(* of one settled callable.  Date.now() is the variable now.               *)
(***************************************************************************)
EXTENDS Integers, Sequences, FiniteSets, TLC

\* ---- bounds of the model -------------------------------------------------
\* number of call()s explored
MaxTasks == 2
\* the clock is followed for this long after the last dispatch; at construction
\* it reads this much (Date.now() is ms since the epoch, far above any interval)
MaxGap == 2
\* how far Date.now() may move between two reads inside one handler
Drifts == {0, 1}

\* ---- inputs --------------------------------------------------------------
\* constructor arguments explored: negative, 0 (unlimited), and a positive rate
\* whose interval is 1.5 ms
MaxFlows == {-60000, 0, 40000}
\* argument objects the callers own: object 1 has a field "token", 2 has not
Objects == {1, 2}
InitialHeap == [o \in Objects |-> IF o = 1 THEN {"token", "data"} ELSE {"data"}]
\* what the callable produced asynchronously: a value or a reason
Outcomes == {[kind |-> "fulfilled", val |-> "value"],
             [kind |-> "rejected", val |-> "reason"]}
\* what a callable does in its synchronous part when invoked
Behaviours == {"returns", "throws", "reenters"}

NoValue == "none"
Pending == [state |-> "pending", val |-> NoValue]
NoArgs == {"undispatched"}

VARIABLES
  _maxFlow,          \* constructor argument maxFlow
  _count,            \* tasks dispatched and not yet settled
  _lastExecuteTime,  \* time of the last dispatch, 0 initially
  _taskQueue,        \* sequence of task ids waiting for dispatch
  _totalTime,        \* sum of the elapsed times of the settled tasks
  _total,            \* number of settled tasks
  timers,            \* setTimeout callbacks of _executeTask not yet fired
  now,               \* Date.now()
  heap,              \* fields of each caller-owned argument object
  tasks,             \* one record per call(), in submission order
  dispatched,        \* task ids in the order they were shifted and invoked
  dispatchTime,      \* Date.now() when the last of them was shifted and invoked
  escaped            \* an exception left _executeTask uncaught

vars == <<_maxFlow, _count, _lastExecuteTime, _taskQueue, _totalTime, _total,
          timers, now, heap, tasks, dispatched, dispatchTime, escaped>>

\* ---- constructor ---------------------------------------------------------
MsPerMinute == 60 * 1000

\* d < this._minInterval, where _minInterval = (60 * 1000) / this._maxFlow is
\* an IEEE double: 60000/0 is +Infinity, a negative rate gives a negative one
LessThanMinInterval(d, maxFlow) ==
  IF maxFlow > 0 THEN d * maxFlow < MsPerMinute
  ELSE IF maxFlow = 0 THEN TRUE
  ELSE d * maxFlow > MsPerMinute

Init ==
  /\ _maxFlow \in MaxFlows
  /\ _count = 0
  /\ _lastExecuteTime = 0
  /\ _taskQueue = <<>>
  /\ _totalTime = 0
  /\ _total = 0
  /\ timers = 0
  /\ now = MaxGap
  /\ heap = InitialHeap
  /\ tasks = <<>>
  /\ dispatched = <<>>
  /\ dispatchTime = 0
  /\ escaped = FALSE

\* ---- call ----------------------------------------------------------------
\* the task closure of _createTask(caller, args, resolve, reject), before it is
\* invoked: the argument object it holds, the caller's future, and the
\* observations the properties are stated on
NewTask(arg, h) ==
  [arg |-> arg, argsAtCall |-> h[arg], argsAtDispatch |-> NoArgs,
   status |-> "queued", beginTime |-> 0, outcome |-> Pending,
   future |-> Pending, notified |-> 0, dispatches |-> 0]

\* (variant) the task is put at the head, as unshift would
EnqueueAtHead(q, t) == <<t>> \o q

\* (variant) the task is pushed inside the if-branch and again after it
EnqueueTwice(q, t) == Append(Append(q, t), t)

\* the push position of call(): the task goes to the tail
Enqueue(q, t) == Append(q, t)

\* (variant) setTimeout is armed by every call()
ArmOnEveryCall(q) == 1

\* setTimeout is armed when the queue is empty before the push
ArmOnCall(q) == IF Len(q) <= 0 THEN 1 ELSE 0

call(arg) ==
  /\ Len(tasks) < MaxTasks
  /\ tasks' = Append(tasks, NewTask(arg, heap))
  /\ timers' = timers + ArmOnCall(_taskQueue)
  /\ _taskQueue' = Enqueue(_taskQueue, Len(tasks) + 1)
  /\ UNCHANGED <<_maxFlow, _count, _lastExecuteTime, _totalTime, _total, now,
                 heap, dispatched, dispatchTime, escaped>>

\* ---- _checkFlow ----------------------------------------------------------
\* (variant) the interval test never fails
_checkFlowAlwaysOpen(maxFlow, last, t) ==
  IF maxFlow > 0 THEN [ok |-> TRUE, last |-> t] ELSE [ok |-> TRUE, last |-> last]

\* (variant) the rate test is >= 0: a rate of 0 is compared with its interval
_checkFlowZeroLimited(maxFlow, last, t) ==
  IF maxFlow >= 0
  THEN IF LessThanMinInterval(t - last, maxFlow)
       THEN [ok |-> FALSE, last |-> last]
       ELSE [ok |-> TRUE, last |-> t]
  ELSE [ok |-> TRUE, last |-> last]

\* (variant) _lastExecuteTime is stamped before the interval test
_checkFlowStampsFirst(maxFlow, last, t) ==
  IF maxFlow > 0
  THEN IF LessThanMinInterval(t - last, maxFlow)
       THEN [ok |-> FALSE, last |-> t]
       ELSE [ok |-> TRUE, last |-> t]
  ELSE [ok |-> TRUE, last |-> last]

\* the gate: the result and the value it leaves in _lastExecuteTime
_checkFlow(maxFlow, last, t) ==
  IF maxFlow > 0
  THEN IF LessThanMinInterval(t - last, maxFlow)
       THEN [ok |-> FALSE, last |-> last]
       ELSE [ok |-> TRUE, last |-> t]
  ELSE [ok |-> TRUE, last |-> last]

\* ---- _createTask: the task closure, invoked -------------------------------
\* caller(...args) returned a promise and the chain was attached: this._count++
Invoked(task, t, h) ==
  [task EXCEPT !.status = "running", !.beginTime = t,
               !.argsAtDispatch = h[task.arg], !.dispatches = @ + 1]

\* (variant) the throw is handed to the caller's reject
ThrewRejects(task, t, h) ==
  [task EXCEPT !.status = "threw", !.future = [state |-> "rejected", val |-> "defect"],
               !.notified = @ + 1,
               !.argsAtDispatch = h[task.arg], !.dispatches = @ + 1]

\* caller(...args) threw, or returned something without .then: nothing of the
\* chain is attached, resolve and reject are never called, _count++ is skipped
Threw(task, t, h) ==
  [task EXCEPT !.status = "threw",
               !.argsAtDispatch = h[task.arg], !.dispatches = @ + 1]

\* (variant) .then(resolve).catch(resolve)
ChainResolveOnly(o) == [state |-> "resolved", val |-> o.val]

\* .then(resolve).catch(reject): what the caller's future becomes
Chain(o) ==
  [state |-> IF o.kind = "fulfilled" THEN "resolved" ELSE "rejected",
   val |-> o.val]

\* (variant) the counter of running tasks is not decremented
FinallyNoDecrement(o, c, total, totalTime, elapsed) ==
  [count |-> c, total |-> total + 1, totalTime |-> totalTime + elapsed]

\* (variant) the bookkeeping hangs on .then, so a rejection skips the statistics
FinallyOnFulfilOnly(o, c, total, totalTime, elapsed) ==
  IF o.kind = "fulfilled"
  THEN [count |-> c - 1, total |-> total + 1, totalTime |-> totalTime + elapsed]
  ELSE [count |-> c - 1, total |-> total, totalTime |-> totalTime]

\* the finally callback's counters: this._count--, this._total++,
\* this._totalTime += Date.now() - beginTime; it runs for either outcome
Finally(o, c, total, totalTime, elapsed) ==
  [count |-> c - 1, total |-> total + 1, totalTime |-> totalTime + elapsed]

\* args.map(arg => { if (arg && arg.hasOwnProperty("token")) delete arg.token })
StripToken(h, arg) == [h EXCEPT ![arg] = @ \ {"token"}]

\* ---- _executeTask --------------------------------------------------------
\* (variant) the tick waits while a task runs, the test left commented out
BlockedWhileRunning(gate, c) == ~gate.ok \/ c > 0

\* if (this._checkFlow() === false) { } else { dispatch }: only the gate holds
\* a tick back, the number of running tasks is not looked at
Blocked(gate, c) == ~gate.ok

\* (variant) the timestamp of the gate is kept, the second Date.now() is dropped
CommitGateTime(last, t) == last

\* this._lastExecuteTime = Date.now(), just before the shift
Commit(last, t) == t

\* (variant) the head is read and left in the queue
ShiftPeek(q) == [task |-> Head(q), rest |-> q]

\* the head leaves the queue: this._taskQueue.shift()
Shift(q) == [task |-> Head(q), rest |-> Tail(q)]

\* (variant) setTimeout again only after a dispatch
ArmOnTickAfterDispatch(q, passed) == IF passed /\ Len(q) > 0 THEN 1 ELSE 0

\* the tail of _executeTask: setTimeout again while the queue is non-empty
ArmOnTick(q, passed) == IF Len(q) > 0 THEN 1 ELSE 0

\* (variant) no try/catch: the throw leaves _executeTask before its tail
NoCatch(q) == [escaped |-> TRUE, rearm |-> 0]

\* try { ... } catch (error) { logger.error(...) }: a throw inside the try
\* block is logged and the tail of _executeTask still runs
Catch(q) == [escaped |-> FALSE, rearm |-> ArmOnTick(q, TRUE)]

\* one firing of the timer callback.  d is the movement of Date.now() between
\* the read in _checkFlow and the read in _executeTask; b is what the callable
\* does synchronously; a is the argument of the call() a re-entrant callable
\* makes on this queue
_executeTask(d, b, a) ==
  /\ timers > 0
  /\ UNCHANGED <<_maxFlow, _totalTime, _total, heap>>
  /\ IF Len(_taskQueue) = 0
     THEN /\ timers' = timers - 1
          /\ d = 0 /\ b = "returns" /\ a = 1
          /\ UNCHANGED <<_count, _lastExecuteTime, _taskQueue, now, tasks,
                         dispatched, dispatchTime, escaped>>
     ELSE LET gate == _checkFlow(_maxFlow, _lastExecuteTime, now) IN
          IF Blocked(gate, _count)
          THEN /\ timers' = timers - 1 + ArmOnTick(_taskQueue, FALSE)
               /\ _lastExecuteTime' = gate.last
               /\ d = 0 /\ b = "returns" /\ a = 1
               /\ UNCHANGED <<_count, _taskQueue, now, tasks, dispatched,
                              dispatchTime, escaped>>
          ELSE LET t2 == now + d
                   sh == Shift(_taskQueue)
                   id == sh.task
               IN
               /\ now' = t2
               /\ _lastExecuteTime' = Commit(gate.last, t2)
               /\ dispatched' = Append(dispatched, id)
               /\ dispatchTime' = t2
               /\ CASE b = "throws" ->
                         LET c == Catch(sh.rest) IN
                         /\ a = 1
                         /\ tasks' = [tasks EXCEPT ![id] = Threw(@, t2, heap)]
                         /\ _taskQueue' = sh.rest
                         /\ _count' = _count
                         /\ escaped' = (escaped \/ c.escaped)
                         /\ timers' = timers - 1 + c.rearm
                    [] b = "returns" ->
                         /\ a = 1
                         /\ tasks' = [tasks EXCEPT ![id] = Invoked(@, t2, heap)]
                         /\ _taskQueue' = sh.rest
                         /\ _count' = _count + 1
                         /\ escaped' = escaped
                         /\ timers' = timers - 1 + ArmOnTick(sh.rest, TRUE)
                    [] b = "reenters" ->
                         LET q2 == Enqueue(sh.rest, Len(tasks) + 1) IN
                         /\ Len(tasks) < MaxTasks
                         /\ tasks' = Append([tasks EXCEPT ![id] = Invoked(@, t2, heap)],
                                            NewTask(a, heap))
                         /\ _taskQueue' = q2
                         /\ _count' = _count + 1
                         /\ escaped' = escaped
                         /\ timers' = timers - 1 + ArmOnCall(sh.rest)
                                                 + ArmOnTick(q2, TRUE)

\* ---- settlement of a dispatched callable's promise -------------------------
\* the reactions .then(resolve).catch(reject).finally(...) of task id, whose
\* callable's promise settled with outcome o
Settle(id, o) ==
  /\ id \in 1..Len(tasks)
  /\ tasks[id].status = "running"
  /\ LET f == Finally(o, _count, _total, _totalTime, now - tasks[id].beginTime) IN
     /\ tasks' = [tasks EXCEPT ![id].status = "settled",
                               ![id].beginTime = 0,
                               ![id].outcome = [state |-> o.kind, val |-> o.val],
                               ![id].future = Chain(o),
                               ![id].notified = @ + 1]
     /\ _count' = f.count
     /\ _total' = f.total
     /\ _totalTime' = f.totalTime
  /\ heap' = StripToken(heap, tasks[id].arg)
  /\ UNCHANGED <<_maxFlow, _lastExecuteTime, _taskQueue, timers, now,
                 dispatched, dispatchTime, escaped>>

\* ---- the clock -------------------------------------------------------------
\* Date.now() moves on between handlers.  It is followed while a task waits or
\* runs, and until MaxGap after the last dispatch: beyond that the gate no
\* longer depends on it
AdvanceClock ==
  /\ now - _lastExecuteTime < MaxGap
  /\ Len(_taskQueue) > 0 \/ _count > 0
  /\ now' = now + 1
  /\ UNCHANGED <<_maxFlow, _count, _lastExecuteTime, _taskQueue, _totalTime,
                 _total, timers, heap, tasks, dispatched, dispatchTime, escaped>>

Next ==
  \/ \E a \in Objects : call(a)
  \/ \E d \in Drifts, b \in Behaviours, a \in Objects : _executeTask(d, b, a)
  \/ \E id \in 1..MaxTasks, o \in Outcomes : Settle(id, o)
  \/ AdvanceClock

Spec == Init /\ [][Next]_vars

\* timers armed with setTimeout fire, and time passes
FairSpec ==
  /\ Spec
  /\ WF_vars(\E d \in Drifts, b \in Behaviours, a \in Objects : _executeTask(d, b, a))
  /\ WF_vars(AdvanceClock)

\* ---- vocabulary of the properties -------------------------------------------
TaskIds == 1..Len(tasks)
InQueue(id) == \E i \in 1..Len(_taskQueue) : _taskQueue[i] = id
WasDispatched(id) == \E i \in 1..Len(dispatched) : dispatched[i] = id
Tick == \E d \in Drifts, b \in Behaviours, a \in Objects : _executeTask(d, b, a)
Dispatches == Len(dispatched') = Len(dispatched) + 1
SomeTaskThrew == \E k \in TaskIds : tasks[k].status = "threw"

\* ---- C1 ---------------------------------------------------------------------
\* C1: with _maxFlow = M > 0, whenever a task is shifted and invoked after an
\* earlier dispatch, the two dispatch times differ by at least 60000/M ms.
C1_MinGapBetweenDispatches ==
  [][(_maxFlow > 0 /\ Len(dispatched) > 0 /\ Dispatches)
       => (dispatchTime' - dispatchTime) * _maxFlow >= MsPerMinute]_vars

\* two dispatches of a rate-limited queue have happened
C1_Witness == _maxFlow > 0 /\ Len(dispatched) >= 2

\* ---- C2 ---------------------------------------------------------------------
\* C2: tasks are dispatched in the order of their call()s: the i-th dispatch is
\* the task of the i-th call(), whatever has settled in between.
C2_DispatchOrderIsSubmissionOrder ==
  \A i \in 1..Len(dispatched) : dispatched[i] = i

\* both tasks dispatched, the later one settled while the earlier still runs
C2_Witness ==
  /\ Len(dispatched) >= 2
  /\ tasks[1].status = "running"
  /\ tasks[2].status = "settled"

\* ---- C3 ---------------------------------------------------------------------
\* what the caller's future must show for a callable's outcome
Mirror(o) ==
  IF o.state = "fulfilled" THEN [state |-> "resolved", val |-> o.val]
  ELSE IF o.state = "rejected" THEN [state |-> "rejected", val |-> o.val]
  ELSE Pending

\* C3 (as claimed): once the invocation of a task's callable is over, whether it
\* produced an outcome or threw, the caller's future has been settled exactly
\* once, with the callable's outcome.
C3_EveryFutureSettlesOnce ==
  \A id \in TaskIds :
    tasks[id].status \in {"settled", "threw"}
      => /\ tasks[id].notified = 1
         /\ tasks[id].future.state \in {"resolved", "rejected"}
         /\ tasks[id].future = Mirror(tasks[id].outcome)

\* C3 (amended): resolve/reject is called at most once per future; a future is
\* settled exactly when its callable's promise has settled, and then with that
\* promise's outcome (resolved with the value, rejected with the reason); the
\* future of a task whose callable threw synchronously stays unsettled.
C3_FutureMirrorsCallable ==
  \A id \in TaskIds :
    /\ tasks[id].notified <= 1
    /\ tasks[id].future = Mirror(tasks[id].outcome)
    /\ tasks[id].status = "settled"
         <=> (tasks[id].notified = 1 /\ tasks[id].outcome.state # "pending")
    /\ tasks[id].status = "threw"
         => (tasks[id].notified = 0 /\ tasks[id].future = Pending)

\* one future rejected with the callable's reason, another left unsettled by a
\* callable that threw
C3_Witness ==
  \E i, j \in TaskIds :
    /\ tasks[i].future = [state |-> "rejected", val |-> "reason"]
    /\ tasks[j].status = "threw"

\* ---- C4 ---------------------------------------------------------------------
\* C4: a task leaves _taskQueue only by being shifted and invoked, and with
\* timers firing and the clock advancing every queued task is eventually
\* dispatched.
C4_EveryTaskIsDispatched ==
  /\ [][\A id \in TaskIds : (InQueue(id) /\ ~InQueue(id)') => WasDispatched(id)']_vars
  /\ \A id \in 1..MaxTasks : InQueue(id) ~> WasDispatched(id)

\* every call() explored was made, every task dispatched, the loop is idle
C4_Witness ==
  /\ Len(tasks) = MaxTasks
  /\ Len(dispatched) = MaxTasks
  /\ Len(_taskQueue) = 0
  /\ timers = 0

Rejects(id) == tasks[id].status = "running" /\ tasks'[id].outcome.state = "rejected"

\* C6: when a dispatched callable's promise rejects, the caller's future is
\* rejected with the same reason, _count drops by 1, _total grows by 1,
\* _totalTime grows by the task's elapsed time, and the task is not run again.
C6_RejectionIsBookedLikeFulfilment ==
  /\ [][\A id \in TaskIds :
          Rejects(id) =>
            /\ tasks'[id].future = [state |-> "rejected", val |-> tasks'[id].outcome.val]
            /\ _count' = _count - 1
            /\ _total' = _total + 1
            /\ _totalTime' = _totalTime + (now - tasks[id].beginTime)
            /\ _taskQueue' = _taskQueue
            /\ dispatched' = dispatched]_vars
  /\ [](\A id \in TaskIds :
          tasks[id].future.state = "rejected"
            => (~InQueue(id) /\ tasks[id].dispatches = 1))

\* a task that ran for some time was rejected and counted
C6_Witness ==
  \E id \in TaskIds :
    /\ tasks[id].future.state = "rejected"
    /\ _total = 1
    /\ _totalTime > 0

\* ---- C7 ---------------------------------------------------------------------
\* C7: once the dispatch of some task has thrown synchronously, every task in
\* _taskQueue (left there or submitted later) is still eventually dispatched.
C7_ThrowDoesNotStopTheLoop ==
  \A id \in 1..MaxTasks : (SomeTaskThrew /\ InQueue(id)) ~> WasDispatched(id)

\* the first task threw at dispatch and the second was dispatched after it
C7_Witness ==
  /\ Len(tasks) >= 2
  /\ tasks[1].status = "threw"
  /\ WasDispatched(2)

\* ---- C8 ---------------------------------------------------------------------
\* C8: a synchronous throw at dispatch never leaves _executeTask and is never
\* handed to a caller's future: the future of the task that threw is untouched.
C8_DefectNeverReachesAFuture ==
  /\ ~escaped
  /\ \A id \in TaskIds :
       /\ tasks[id].future.val # "defect"
       /\ tasks[id].status = "threw" => tasks[id].future = Pending

\* a dispatch threw while another task's future was settled by its callable
C8_Witness ==
  \E i, j \in TaskIds :
    /\ tasks[i].status = "threw"
    /\ tasks[j].future.state = "resolved"

\* ---- C9 ---------------------------------------------------------------------
\* C9: with _maxFlow <= 0 the gate is open in every state, and every firing of
\* _executeTask that finds _taskQueue non-empty dispatches its head.
C9_NonPositiveRateIsUnlimited ==
  /\ [](_maxFlow <= 0 => _checkFlow(_maxFlow, _lastExecuteTime, now).ok)
  /\ [][(_maxFlow <= 0 /\ Len(_taskQueue) > 0 /\ Tick)
          => dispatched' = Append(dispatched, Head(_taskQueue))]_vars

\* a queue built with a negative rate dispatched two tasks at the same time
C9_Witness ==
  /\ _maxFlow < 0
  /\ Len(dispatched) >= 2
  /\ tasks[1].status = "running"
  /\ tasks[2].status = "running"
  /\ tasks[1].beginTime = tasks[2].beginTime

\* ---- C10 --------------------------------------------------------------------
\* C10: the callable of every dispatched task was invoked with arguments whose
\* content is what it was when call() was given them.
C10_ArgsForwardedVerbatim ==
  \A id \in TaskIds :
    tasks[id].dispatches > 0 => tasks[id].argsAtDispatch = tasks[id].argsAtCall

\* ---- C11 --------------------------------------------------------------------
\* C11: every argument object handed to call() still has the content it had
\* when it was handed over, in every state after submission, dispatch and
\* settlement.
C11_CallerObjectsUntouched ==
  \A id \in TaskIds : heap[tasks[id].arg] = tasks[id].argsAtCall

\* ---- C12 --------------------------------------------------------------------
Submits == Len(tasks') = Len(tasks) + 1

\* C12: a call(), made from outside or by a callable being dispatched, leaves
\* its task in _taskQueue and not invoked; a call() from outside dispatches
\* nothing and arms a timer exactly when _taskQueue was empty before its push;
\* the tick a callable calls from arms one for that call() when the shift left
\* _taskQueue empty, and one more in its tail.
C12_CallOnlyEnqueues ==
  /\ [][\A id \in 1..MaxTasks :
          (Submits /\ id = Len(tasks) + 1) =>
            /\ InQueue(id)'
            /\ tasks'[id].status = "queued"
            /\ tasks'[id].dispatches = 0
            /\ ~WasDispatched(id)']_vars
  /\ [][(Submits /\ ~Tick) =>
          /\ dispatched' = dispatched
          /\ _count' = _count
          /\ _taskQueue' = Append(_taskQueue, Len(tasks) + 1)
          /\ timers' = IF Len(_taskQueue) = 0 THEN timers + 1 ELSE timers]_vars
  /\ [][(Submits /\ Tick) =>
          timers' = (timers - 1) + (IF Len(_taskQueue) = 1 THEN 1 ELSE 0) + 1]_vars

\* two call()s made back to back: both tasks wait for the one timer armed
C12_Witness ==
  /\ Len(tasks) = 2
  /\ _taskQueue = <<1, 2>>
  /\ timers = 1
  /\ dispatched = <<>>

\* ---- C13 --------------------------------------------------------------------
\* C13: between handlers a timer of _executeTask is armed exactly when
\* _taskQueue is non-empty.
C13_ScheduledIffPending == (timers > 0) <=> (Len(_taskQueue) > 0)

\* ---- C14 --------------------------------------------------------------------
\* _lastExecuteTime never decreases, and after a dispatch it is the time of
\* that dispatch
LastExecuteTimeFollowsDispatches ==
  /\ [][_lastExecuteTime' >= _lastExecuteTime]_vars
  /\ [][Dispatches => (_lastExecuteTime' = dispatchTime' /\ dispatchTime' = now')]_vars
  /\ [](Len(dispatched) > 0 => _lastExecuteTime = dispatchTime)

\* C14 (as claimed): _lastExecuteTime never decreases, after a dispatch it is
\* the time of that dispatch, and two dispatches leave it at the same value
\* only when _maxFlow = 0.
C14_TiesOnlyAtZeroRate ==
  /\ LastExecuteTimeFollowsDispatches
  /\ [][(Dispatches /\ Len(dispatched) > 0 /\ _lastExecuteTime' = _lastExecuteTime)
          => _maxFlow = 0]_vars

\* C14 (amended): _lastExecuteTime never decreases, after a dispatch it is the
\* time of that dispatch, and two dispatches leave it at the same value only
\* when _maxFlow <= 0.
C14_TiesOnlyWithoutLimit ==
  /\ LastExecuteTimeFollowsDispatches
  /\ [][(Dispatches /\ Len(dispatched) > 0 /\ _lastExecuteTime' = _lastExecuteTime)
          => _maxFlow <= 0]_vars

\* an unlimited queue dispatched twice at one time; the clock had moved before
C14_Witness ==
  /\ _maxFlow = 0
  /\ Len(dispatched) >= 2
  /\ tasks[1].status = "running"
  /\ tasks[2].status = "running"
  /\ tasks[1].beginTime = tasks[2].beginTime
  /\ _lastExecuteTime = now
  /\ now > MaxGap

\* ---- C15 --------------------------------------------------------------------
\* C15: a task is shifted and invoked at most once: it is never twice in
\* _taskQueue, never twice among the dispatched, and once dispatched (running,
\* settled or thrown) it is not in _taskQueue again.
C15_DispatchedAtMostOnce ==
  /\ \A i, j \in 1..Len(_taskQueue) : _taskQueue[i] = _taskQueue[j] => i = j
  /\ \A i, j \in 1..Len(dispatched) : dispatched[i] = dispatched[j] => i = j
  /\ \A id \in TaskIds :
       /\ tasks[id].dispatches <= 1
       /\ WasDispatched(id) <=> tasks[id].dispatches = 1
       /\ WasDispatched(id) => ~InQueue(id)
       /\ tasks[id].status = "queued" <=> InQueue(id)

\* one task threw at dispatch, the other rejected: neither is queued again
C15_Witness ==
  /\ Len(tasks) = 2
  /\ tasks[1].status = "threw"
  /\ tasks[2].future.state = "rejected"
  /\ _taskQueue = <<>>

\* ---- C16 --------------------------------------------------------------------
GateFails == _maxFlow > 0 /\ (now - _lastExecuteTime) * _maxFlow < MsPerMinute

\* C16: a firing of _executeTask whose gate fails dispatches nothing and leaves
\* _taskQueue, _lastExecuteTime, _count, _total and _totalTime as they were;
\* it only replaces its timer by the next one.
C16_FailedGateOnlyReschedules ==
  [][(Tick /\ Len(_taskQueue) > 0 /\ GateFails) =>
       /\ UNCHANGED <<_taskQueue, _lastExecuteTime, _count, _total, _totalTime>>
       /\ UNCHANGED <<dispatched, tasks, heap, now>>
       /\ timers' = timers]_vars

\* a task waits behind a closed gate with a timer armed, after a first dispatch
C16_Witness ==
  /\ GateFails
  /\ Len(_taskQueue) > 0
  /\ timers > 0
  /\ Len(dispatched) = 1

\* ---- C17 --------------------------------------------------------------------
\* C17: the future of a task that is still in _taskQueue is unsettled, and
\* neither resolve nor reject has been called for it.
C17_NoSettlementBeforeDispatch ==
  \A id \in TaskIds :
    InQueue(id) => (tasks[id].future = Pending /\ tasks[id].notified = 0)

\* the first future is settled while the second task still waits
C17_Witness ==
  /\ Len(tasks) = 2
  /\ tasks[1].future.state = "resolved"
  /\ InQueue(2)

\* ---- C18 --------------------------------------------------------------------
Running == {id \in TaskIds : tasks[id].status = "running"}
GateOpen == _maxFlow <= 0 \/ (now - _lastExecuteTime) * _maxFlow >= MsPerMinute

\* C18: dispatch does not wait for running tasks: _count is the number of
\* tasks dispatched and not yet settled, whichever they are, and a firing of
\* _executeTask that finds a task queued and the gate open dispatches the head
\* however many tasks are running.
C18_DispatchDoesNotWaitForSettlement ==
  /\ [](_count = Cardinality(Running))
  /\ [][(Tick /\ Len(_taskQueue) > 0 /\ GateOpen)
          => (Dispatches /\ _count' >= _count)]_vars

\* on a rate-limited queue the second task was dispatched while the first was
\* still running
C18_Witness ==
  /\ _maxFlow > 0
  /\ _count > 1
  /\ Cardinality(Running) = 2

\* ---- C19 --------------------------------------------------------------------
\* C19: at most one timer of _executeTask is armed at any time.
C19_AtMostOneTimer == timers <= 1

\* ---- C20 --------------------------------------------------------------------
ThrewAtDispatch == {id \in TaskIds : tasks[id].status = "threw"}

====
